---- MODULE Spec2Model ----
(***************************************************************************)
(* A model of script.py: the daily fetch / normalise / merge / snapshot    *)
(* pipeline (main) and the incremental aggregation of the snapshot         *)
(* artifacts into the cumulative CSV table (update_aggregated_csv).        *)
(*                                                                         *)
(* Strings the script takes apart are modelled as sequences of tokens: a   *)
(* file name is the sequence of its pieces ("deepstatemap_data_",          *)
(* "20240101", ".geojson", ...), a feature label is the sequence of its    *)
(* '///'-separated segments, a segment is a sequence of words and " ".     *)
(* A polygon is abstracted to an identifier; centroid, area and WKT are    *)
(* functions of the polygon alone and are carried by that identifier.      *)
(***************************************************************************)
EXTENDS Integers, Sequences, FiniteSets, TLC

(* ------------------------------ bounds --------------------------------- *)

\* Longest feature list of a payload the model enumerates.
MaxFeatures == 2

\* Parts of the multipolygon in the artifact put in from outside.
MaxParts == 2

(* --------------------------- configuration ----------------------------- *)

MAX_RETRIES == 3
RETRY_DELAY == 5
PREFIX == "deepstatemap_data_"
EXT == ".geojson"
CSV_NAME == <<"aggregated_deepstatemap.csv">>

\* The days datetime.now() can fall on when the module is loaded (line 22).
Days == {"20240101", "20240102"}

\* variant: one name for every day
OUTPUT_FILENAME_latest(today) == <<PREFIX, "latest", EXT>>

OUTPUT_FILENAME(today) == <<PREFIX, today, EXT>>

(* ----------------------------- geometry -------------------------------- *)

Polygon(p, d) == [kind |-> "Polygon", parts |-> <<p>>, dim |-> d]
MultiPolygon(ps, d) == [kind |-> "MultiPolygon", parts |-> ps, dim |-> d]
Point(d) == [kind |-> "Point", parts |-> <<>>, dim |-> d]
\* A null / empty geometry, as read back from an artifact holding none.
NoGeometry == [kind |-> "None", parts |-> <<>>, dim |-> 2]

isinstance(geom, kinds) == geom.kind \in kinds

(* ------------------------- files of OUTPUT_DIR ------------------------- *)

NoName == <<>>
Absent == [present |-> FALSE, readable |-> FALSE, columns |-> {}, rows |-> <<>>]
Unreadable == [present |-> TRUE, readable |-> FALSE, columns |-> {}, rows |-> <<>>]
GeoFile(cols, rws) == [present |-> TRUE, readable |-> TRUE, columns |-> cols, rows |-> rws]

\* What GeoSeries.to_file writes for the one merged geometry (line 203): a
\* single feature without a name column; an empty geometry is stored as null.
WrittenArtifact(geom) ==
  GeoFile({"geometry"},
          << [geometry |-> IF geom.parts = <<>> THEN NoGeometry ELSE geom,
              name |-> NoName] >>)

\* Artifacts put into the directory from outside the script.
ArtEmpty == WrittenArtifact(NoGeometry)
ArtPolygon == WrittenArtifact(Polygon(1, 2))
ArtMixed ==
  GeoFile({"geometry", "name"},
          << [geometry |-> Point(2), name |-> <<"Occupied">>],
             [geometry |-> MultiPolygon([i \in 1..MaxParts |-> i + 1], 2),
              name |-> <<"Occupied">>],
             [geometry |-> Polygon(MaxParts + 2, 2), name |-> <<"Other">>] >>)

\* The names OUTPUT_DIR may hold beside the table: the artifacts of two days,
\* a file of the first day saved without the prefix, and two names with no
\* date that %Y%m%d can parse, one sorting before the artifacts of the two
\* days and one after them.
FileNames ==
  { <<PREFIX, "20240101", EXT>>,
    <<PREFIX, "20240102", EXT>>,
    <<"20240101", EXT>>,
    <<PREFIX, "2024-01-01", EXT>>,
    <<PREFIX, "latest", EXT>> }

\* The (name, content) pairs the environment may drop into OUTPUT_DIR.
ExternalFiles ==
  ({ <<PREFIX, "20240101", EXT>> } \X {ArtEmpty, ArtPolygon, ArtMixed, Unreadable})
  \cup ({ <<"20240101", EXT>> } \X {ArtMixed, Unreadable})
  \cup ({ <<PREFIX, "20240102", EXT>> } \X {ArtPolygon, Unreadable})
  \cup ({ <<PREFIX, "2024-01-01", EXT>> } \X {ArtPolygon})
  \cup ({ <<PREFIX, "latest", EXT>> } \X {Unreadable})

\* The directories a first run of main may find.
InitialDirs ==
  { [n \in FileNames |-> Absent],
    [n \in FileNames |-> IF n = <<"20240101", EXT>> THEN ArtMixed ELSE Absent],
    [n \in FileNames |-> IF n = <<PREFIX, "20240102", EXT>> THEN Unreadable ELSE Absent] }

(* ----------------------- file names and their dates -------------------- *)

\* Rank of a name piece in string order (by first differing character).
TokenRank(t) ==
  CASE t = EXT -> 1
    [] t = "2024-01-01" -> 2
    [] t = "20240101" -> 3
    [] t = "20240102" -> 4
    [] t = "aggregated_deepstatemap.csv" -> 5
    [] t = PREFIX -> 6
    [] t = "latest" -> 7

RECURSIVE FileLess(_, _)
FileLess(a, b) ==
  IF a = <<>> THEN b # <<>>
  ELSE IF b = <<>> THEN FALSE
  ELSE IF a[1] = b[1] THEN FileLess(Tail(a), Tail(b))
  ELSE TokenRank(a[1]) < TokenRank(b[1])

RECURSIVE sorted_reversed(_)
\* variant: the listing in descending order
sorted_reversed(S) ==
  IF S = {} THEN <<>>
  ELSE LET m == CHOOSE x \in S : \A y \in S \ {x} : FileLess(y, x)
       IN <<m>> \o sorted_reversed(S \ {m})

RECURSIVE sorted(_)
sorted(S) ==
  IF S = {} THEN <<>>
  ELSE LET m == CHOOSE x \in S : \A y \in S \ {x} : FileLess(x, y)
       IN <<m>> \o sorted(S \ {m})

replace(s, old) == SelectSeq(s, LAMBDA t : t # old)

endswith(s, suffix) == s # <<>> /\ s[Len(s)] = suffix

NoDate == "None"

\* datetime.strptime(date_str, "%Y%m%d").date(), or NoDate on ValueError.
strptime(date_str) ==
  IF Len(date_str) # 1 THEN NoDate
  ELSE CASE date_str[1] = "20240101" -> "2024-01-01"
         [] date_str[1] = "20240102" -> "2024-01-02"
         [] OTHER -> NoDate

extract_date_from_filename(filename) ==
  strptime(replace(replace(filename, PREFIX), EXT))

(* --------------------------- process_geojson --------------------------- *)

\* variant: a MultiPolygon is not decomposed, only its first part is taken
polygons_first(geom) == <<geom.parts[1]>>

\* geom.geoms if isinstance(geom, MultiPolygon) else [geom] (line 120)
polygons(geom) == geom.parts

\* variant: the row does not get the date of the file name
row_data_undated(date, polygon, columns, row) ==
  [date |-> NoDate,
   polygon |-> polygon,
   name |-> IF "name" \in columns THEN row.name ELSE NoName]

row_data(date, polygon, columns, row) ==
  [date |-> date,
   polygon |-> polygon,
   name |-> IF "name" \in columns THEN row.name ELSE NoName]

RowsOfGeometry(date, columns, row) ==
  IF ~isinstance(row.geometry, {"Polygon", "MultiPolygon"}) THEN <<>>
  ELSE [i \in 1..Len(polygons(row.geometry)) |->
          row_data(date, polygons(row.geometry)[i], columns, row)]

RECURSIVE ProcessRows(_, _, _)
ProcessRows(date, columns, rws) ==
  IF rws = <<>> THEN <<>>
  ELSE RowsOfGeometry(date, columns, rws[1]) \o ProcessRows(date, columns, Tail(rws))

\* The data frame process_geojson returns (as its sequence of rows).
process_geojson(filepath, file) ==
  IF extract_date_from_filename(filepath) = NoDate THEN <<>>
  ELSE ProcessRows(extract_date_from_filename(filepath), file.columns, file.rows)

\* variant: the artifact is read before its name is looked at
ReadFails_any(filepath, file) == ~file.readable

\* gpd.read_file raises: reached only for a name with a date.
ReadFails(filepath, file) ==
  extract_date_from_filename(filepath) # NoDate /\ ~file.readable

(* ----------------------------- process_data ---------------------------- *)

RECURSIVE lstrip(_)
lstrip(s) == IF s # <<>> /\ s[1] = " " THEN lstrip(Tail(s)) ELSE s

RECURSIVE rstrip(_)
rstrip(s) ==
  IF s # <<>> /\ s[Len(s)] = " " THEN rstrip(SubSeq(s, 1, Len(s) - 1)) ELSE s

strip(s) == rstrip(lstrip(s))

\* name.split('///')[part].strip() with part = 1: the label is held already
\* split, so index 1 of the script is position 2 here.
extract_first_part(label) == strip(label[2])

\* wkt.loads(wkt.dumps(shape(geom), output_dimension=2))
flatten(geom) == [geom EXCEPT !.dim = 2]

\* process_data raises: a key is missing (KeyError), the payload is None
\* (TypeError), or a label has fewer than two segments (IndexError).
ProcessFails(data) ==
  \/ ~data.ok
  \/ \E i \in 1..Len(data.features) : Len(data.features[i].label) < 2

process_data(data) ==
  [i \in 1..Len(data.features) |->
     [name |-> extract_first_part(data.features[i].label),
      geometry |-> flatten(data.features[i].geometry)]]

(* -------------------------- create_geodataframe ------------------------ *)

CATEGORIES == { <<"CADR and CALR">>, <<"Occupied">>, <<"Occupied Crimea">> }

\* A frame built from an empty list has no columns: .set_crs, .geometry and
\* ['name'] raise on it (lines 75-80).
CreateFails(geo_list) == geo_list = <<>>

polygon_gdf(geo_list) ==
  SelectSeq(geo_list, LAMBDA f : isinstance(f.geometry, {"Polygon"}))

filtered_gdf(geo_list) ==
  SelectSeq(polygon_gdf(geo_list), LAMBDA f : f.name \in CATEGORIES)

\* The union of n polygons: empty for n = 0, else 1..n disjoint parts
\* (overlapping or abutting polygons merge), numbered 1..k.
unary_union(n) ==
  IF n = 0 THEN { [kind |-> "GeometryCollection", parts |-> <<>>, dim |-> 2] }
  ELSE { Polygon(1, 2) } \cup { MultiPolygon([i \in 1..k |-> i], 2) : k \in 2..n }

\* buffer(eps).buffer(-eps): the empty geometry stays empty (an empty
\* polygon), a region keeps its parts.
deartifact(geom) ==
  IF geom.parts = <<>> THEN [kind |-> "Polygon", parts |-> <<>>, dim |-> 2] ELSE geom

\* The geometries create_geodataframe may return for geo_list.
create_geodataframe(geo_list) ==
  { deartifact(u) : u \in unary_union(Len(filtered_gdf(geo_list))) }

(* ------------------------------ payloads ------------------------------- *)

RawFeatures ==
  { [label |-> << <<"A">>, <<"Occupied">> >>, geometry |-> Polygon(1, 2)],
    [label |-> << <<"A">>, <<" ", "CADR and CALR", " ">> >>, geometry |-> Polygon(2, 3)],
    [label |-> << <<"A">>, <<"Other">> >>, geometry |-> Polygon(3, 2)],
    [label |-> << <<"A">>, <<"Occupied">> >>, geometry |-> MultiPolygon(<<4, 5>>, 2)],
    [label |-> << <<"A">>, <<"Occupied Crimea">>, <<"x">> >>, geometry |-> Point(2)],
    [label |-> << <<"Occupied">> >>, geometry |-> Polygon(6, 2)] }

FeatureLists == UNION { [1..n -> RawFeatures] : n \in 0..MaxFeatures }

\* What response.json() may hold: the expected shape, or one lacking a key.
Payloads ==
  { [ok |-> TRUE, features |-> fs] : fs \in FeatureLists }
  \cup { [ok |-> FALSE, features |-> <<>>] }

(* ------------------------------- state --------------------------------- *)

VARIABLES
  dir,             \* OUTPUT_DIR: file name -> artifact file (or Absent)
  csvExists,       \* os.path.exists(CSV_PATH)
  csvRows,         \* the rows of the Aggregated Table on disk
  mpc,             \* position in main
  today,           \* the day in OUTPUT_FILENAME of the running process
  attempt,         \* loop variable of make_api_request
  fetches,         \* requests.get calls made by this invocation
  slept,           \* seconds spent in time.sleep by this invocation
  gdf,             \* the geometry create_geodataframe returned
  exitStatus,      \* -1 while running, else the status the process ended with
  artifactWritten, \* this run of main has written its artifact
  emptySelection,  \* the payload of this run was well formed and no feature
                   \* of it passed the filter
  abortedAt,       \* the step whose exception ended this run of main
  steps,           \* the steps of main this run has ended, in order, each
                   \* with whether it succeeded
  apc,             \* position in update_aggregated_csv
  caller,          \* "main" or "direct": who called update_aggregated_csv
  existing_df,     \* rows read from the table at the start of the run
  existing_dates,  \* the covered dates derived from them
  todo,            \* the part of sorted(os.listdir(OUTPUT_DIR)) still to visit
  new_dataframes,  \* the non-empty frames collected so far
  outcome,         \* what the run reported: "saved", "noop", "warning"
  readFiles,       \* names whose content this run has read
  frames,          \* per file processed by this run: name, file, frame returned
  wrote,           \* this run called to_csv
  io,              \* what this run did with OUTPUT_DIR, in order: "read_csv",
                   \* "listdir", one "visit" per file of the loop, "to_csv"
  batchDates,      \* per batch of rows in the table, its date
  unchanged,       \* no artifact changed since the previous aggregation run ended
  cleanStart,      \* this aggregation run started with unchanged = TRUE
  startTable,      \* the table as this aggregation run found it
  prevTable,       \* the table as the previous aggregation run left it
  fpc,             \* position in the front half of main run on its own
  raw_data,        \* the payload handed to process_data
  geo_list,        \* what process_data returned
  unionInput,      \* the frame whose geometries create_geodataframe unions
  other_pc,             \* position of a second update_aggregated_csv process
  other_existing_df,    \* its existing_df
  other_existing_dates, \* its existing_dates
  other_new_dataframes, \* its new_dataframes
  runs,            \* the runs of main so far, as long as all of them ended
                   \* with status 0: written, the names their to_file calls
                   \* wrote; days, the days they ran on; rerun, one of them
                   \* ran on a day an earlier one had run on.  Once a run has ended
                   \* otherwise, failed is set and nothing more is recorded
  race             \* how the second process met the first one: readFirst, it
                   \* read the table before the first one wrote; sawRead, the
                   \* first one had read when it wrote; last, the first one
                   \* had written when it wrote

mainVars == <<mpc, today, attempt, fetches, slept, gdf, exitStatus,
              artifactWritten, emptySelection, abortedAt, steps>>
aggVars == <<apc, caller, existing_df, existing_dates, todo, new_dataframes,
             outcome, readFiles, frames, wrote, io, cleanStart, startTable>>
diskVars == <<dir, csvExists, csvRows, batchDates>>
histVars == <<unchanged, prevTable>>
filterVars == <<fpc, raw_data, geo_list, unionInput>>
otherVars == <<other_pc, other_existing_df, other_existing_dates,
               other_new_dataframes, race>>
vars == <<dir, csvExists, csvRows, mpc, today, attempt, fetches, slept, gdf,
          exitStatus, artifactWritten, emptySelection, abortedAt, steps, startTable, apc, caller, existing_df, existing_dates,
          todo, new_dataframes, outcome, readFiles, frames, wrote, io, batchDates,
          unchanged, cleanStart, prevTable, fpc, raw_data, geo_list, unionInput,
          other_pc, other_existing_df, other_existing_dates,
          other_new_dataframes, race, runs>>

Table == [exists |-> csvExists, rows |-> csvRows]
NoTable == [exists |-> FALSE, rows |-> <<>>]

NoPayload == [ok |-> FALSE, features |-> <<>>]

FilterOff ==
  /\ fpc = "off" /\ raw_data = NoPayload /\ geo_list = <<>> /\ unionInput = <<>>

MainIdle ==
  /\ mpc = "idle" /\ today = "" /\ attempt = 0 /\ fetches = 0 /\ slept = 0
  /\ gdf = NoGeometry /\ exitStatus = -1 /\ artifactWritten = FALSE
  /\ emptySelection = FALSE /\ abortedAt = "" /\ steps = <<>>

AggIdle ==
  /\ apc = "idle" /\ caller = "" /\ existing_df = <<>> /\ existing_dates = {}
  /\ todo = <<>> /\ new_dataframes = <<>> /\ outcome = "" /\ readFiles = {}
  /\ frames = <<>> /\ wrote = FALSE /\ io = <<>> /\ cleanStart = FALSE
  /\ startTable = NoTable

NoRuns == [written |-> {}, days |-> {}, rerun |-> FALSE, failed |-> FALSE]

NoRace == [readFirst |-> FALSE, sawRead |-> FALSE, last |-> FALSE]

OtherIdle ==
  /\ other_pc = "idle" /\ other_existing_df = <<>> /\ other_existing_dates = {}
  /\ other_new_dataframes = <<>> /\ race = NoRace

\* The tables a first run may find: none, one without rows, one holding a
\* batch of the second day.
InitialTables ==
  { NoTable,
    [exists |-> TRUE, rows |-> <<>>],
    [exists |-> TRUE,
     rows |-> << [date |-> "2024-01-02", polygon |-> 1, name |-> NoName] >>] }

\* Nothing has run: an empty OUTPUT_DIR, with or without a table.
Init ==
  /\ dir = [n \in FileNames |-> Absent]
  /\ \E t \in InitialTables :
       /\ csvExists = t.exists
       /\ csvRows = t.rows
       /\ batchDates = IF t.rows = <<>> THEN <<>> ELSE <<t.rows[1].date>>
  /\ MainIdle
  /\ AggIdle
  /\ unchanged = FALSE
  /\ prevTable = NoTable
  /\ FilterOff
  /\ OtherIdle
  /\ runs = NoRuns

(* ---------------------- the environment of the script ------------------ *)

\* Somebody adds or replaces an artifact while the script is not running.
PutArtifact ==
  /\ mpc = "idle" /\ apc = "idle"
  /\ \E f \in ExternalFiles :
       /\ dir[f[1]] # f[2]
       /\ dir' = [dir EXCEPT ![f[1]] = f[2]]
  /\ unchanged' = FALSE
  /\ UNCHANGED <<otherVars, runs, filterVars, csvExists, csvRows, batchDates, mainVars, aggVars, prevTable>>

\* Somebody removes an artifact while the script is not running.
RemoveArtifact ==
  /\ mpc = "idle" /\ apc = "idle"
  /\ \E n \in FileNames :
       /\ dir[n].present
       /\ dir' = [dir EXCEPT ![n] = Absent]
  /\ unchanged' = FALSE
  /\ UNCHANGED <<otherVars, runs, filterVars, csvExists, csvRows, batchDates, mainVars, aggVars, prevTable>>

\* The dates of the two days, as the table holds them.
TableDays == {"2024-01-01", "2024-01-02"}

\* Somebody deletes every row of one date from the table between two runs.
RemoveRows ==
  /\ mpc = "idle" /\ apc = "idle"
  /\ csvExists
  /\ \E d \in TableDays :
       /\ \E i \in DOMAIN csvRows : csvRows[i].date = d
       /\ csvRows' = SelectSeq(csvRows, LAMBDA r : r.date # d)
       /\ batchDates' = SelectSeq(batchDates, LAMBDA b : b # d)
  /\ UNCHANGED <<otherVars, runs, filterVars, dir, csvExists, mainVars, aggVars, histVars>>

\* Somebody adds a row of a date the table does not cover between two runs.
AddRows ==
  /\ mpc = "idle" /\ apc = "idle"
  /\ csvExists
  /\ \E d \in TableDays :
       /\ \A i \in DOMAIN csvRows : csvRows[i].date # d
       /\ csvRows' = Append(csvRows, [date |-> d, polygon |-> 0, name |-> NoName])
       /\ batchDates' = Append(batchDates, d)
  /\ UNCHANGED <<otherVars, runs, filterVars, dir, csvExists, mainVars, aggVars, histVars>>

(* ------------------------- update_aggregated_csv ----------------------- *)

\* variant: the listing misses the artifact of the running process
listdir_stale ==
  { n \in FileNames : dir[n].present /\ n # OUTPUT_FILENAME(today) }
    \cup (IF csvExists THEN {CSV_NAME} ELSE {})

listdir == { n \in FileNames : dir[n].present } \cup (IF csvExists THEN {CSV_NAME} ELSE {})

\* variant: only the date of the last row is taken as covered
dates_last(rows) == IF rows = <<>> THEN {} ELSE { rows[Len(rows)].date }

\* set(existing_df["date"].dt.date) (line 147)
dates(rows) == { rows[i].date : i \in 1..Len(rows) }

\* variant: the covered dates are never consulted
AlreadyProcessed_never(file_date, covered) == FALSE

\* file_date in existing_dates (line 159)
AlreadyProcessed(file_date, covered) == file_date \in covered

\* pd.concat(frames, ignore_index=True)
RECURSIVE concat(_)
concat(dfs) == IF dfs = <<>> THEN <<>> ELSE dfs[1] \o concat(Tail(dfs))

\* variant: the rows read from the table are left out of what is saved
combined_df_new_only(existing, new_df) == new_df

\* lines 170-173: the frame that is saved
combined_df(existing, new_df) ==
  IF existing = <<>> THEN new_df ELSE concat(<<existing, new_df>>)

\* variant: the frame is written behind what the file holds (mode="a")
to_csv_append(on_disk, df) == on_disk \o df

\* combined_df.to_csv(CSV_PATH, index=False): the file is replaced (line 175)
to_csv(on_disk, df) == df

\* variant: the table is saved whether or not there is anything new
HasNewData_always(dfs) == TRUE

\* if new_dataframes: (line 168)
HasNewData(dfs) == dfs # <<>>

\* variant: the loop stays on the file it is at
rest_same(files) == files

\* the for statement of line 154 goes on to the next file
rest(files) == Tail(files)

\* variant: the loop is left before the listing is exhausted
LoopDone_early(t) == TRUE

\* the for loop of line 154 has run through the listing
LoopDone(t) == t = <<>>

\* variant: the rows are those the previous run left, kept from run to run
read_existing_cached(exists, rows) == prevTable.rows

\* lines 145-149: pd.read_csv(CSV_PATH) if the file exists, else an empty frame
read_existing(exists, rows) == IF exists THEN rows ELSE <<>>

\* lines 145-154: read the table if it exists, derive the covered dates, list
\* the directory.  Called by main after its artifact is written, or directly.
AggRead ==
  /\ apc = "idle"
  /\ mpc \in {"idle", "aggregate"}
  /\ caller' = IF mpc = "aggregate" THEN "main" ELSE "direct"
  /\ existing_df' = read_existing(csvExists, csvRows)
  /\ existing_dates' = dates(read_existing(csvExists, csvRows))
  /\ todo' = sorted(listdir)
  /\ io' = (IF csvExists THEN <<"read_csv">> ELSE <<>>) \o <<"listdir">>
  /\ new_dataframes' = <<>>
  /\ cleanStart' = unchanged
  /\ startTable' = Table
  /\ apc' = "scan"
  /\ UNCHANGED <<otherVars, runs, filterVars, diskVars, mainVars, histVars, outcome, readFiles, frames, wrote>>

\* line 155 false: not a .geojson name
VisitOther ==
  /\ apc = "scan" /\ todo # <<>>
  /\ ~endswith(Head(todo), EXT)
  /\ todo' = rest(todo)
  /\ io' = Append(io, "visit")
  /\ UNCHANGED <<otherVars, runs, filterVars, diskVars, mainVars, histVars, apc, caller, existing_df,
                 existing_dates, new_dataframes, outcome, readFiles, frames,
                 wrote, cleanStart,
                 startTable>>

\* lines 159-161: the date is covered, the file is skipped
VisitSkip ==
  /\ apc = "scan" /\ todo # <<>>
  /\ endswith(Head(todo), EXT)
  /\ AlreadyProcessed(extract_date_from_filename(Head(todo)), existing_dates)
  /\ todo' = rest(todo)
  /\ io' = Append(io, "visit")
  /\ UNCHANGED <<otherVars, runs, filterVars, diskVars, mainVars, histVars, apc, caller, existing_df,
                 existing_dates, new_dataframes, outcome, readFiles, frames,
                 wrote, cleanStart,
                 startTable>>

\* lines 163-166: process_geojson returns a frame, kept if not empty
VisitProcess ==
  /\ apc = "scan" /\ todo # <<>>
  /\ endswith(Head(todo), EXT)
  /\ ~AlreadyProcessed(extract_date_from_filename(Head(todo)), existing_dates)
  /\ ~ReadFails(Head(todo), dir[Head(todo)])
  /\ LET file == Head(todo)
         df == process_geojson(file, dir[file])
     IN /\ new_dataframes' = IF df # <<>> THEN Append(new_dataframes, df)
                             ELSE new_dataframes
        /\ readFiles' = IF extract_date_from_filename(file) # NoDate
                        THEN readFiles \cup {file} ELSE readFiles
        /\ frames' = Append(frames, [name |-> file, file |-> dir[file], df |-> df])
  /\ todo' = rest(todo)
  /\ io' = Append(io, "visit")
  /\ UNCHANGED <<otherVars, runs, filterVars, diskVars, mainVars, histVars, apc, caller, existing_df,
                 existing_dates, outcome, wrote, cleanStart,
                 startTable>>

\* line 164 raises: gpd.read_file cannot read the artifact
VisitCrash ==
  /\ apc = "scan" /\ todo # <<>>
  /\ endswith(Head(todo), EXT)
  /\ ~AlreadyProcessed(extract_date_from_filename(Head(todo)), existing_dates)
  /\ ReadFails(Head(todo), dir[Head(todo)])
  /\ readFiles' = readFiles \cup {Head(todo)}
  /\ apc' = "crashed"
  /\ io' = Append(io, "visit")
  /\ UNCHANGED <<otherVars, runs, filterVars, diskVars, mainVars, histVars, caller, existing_df,
                 existing_dates, todo, new_dataframes, outcome, frames, wrote,
                 cleanStart,
                 startTable>>

\* lines 168-176: there are new rows, the combined table is saved
AggSave ==
  /\ apc = "scan" /\ LoopDone(todo)
  /\ HasNewData(new_dataframes)
  /\ csvRows' = to_csv(csvRows, combined_df(existing_df, concat(new_dataframes)))
  /\ csvExists' = TRUE
  /\ batchDates' = batchDates \o
       [i \in 1..Len(new_dataframes) |-> new_dataframes[i][1].date]
  /\ io' = Append(io, "to_csv")
  /\ wrote' = TRUE
  /\ outcome' = "saved"
  /\ apc' = "done"
  /\ UNCHANGED <<otherVars, runs, filterVars, dir, mainVars, histVars, caller, existing_df, existing_dates,
                 todo, new_dataframes, readFiles, frames, cleanStart,
                 startTable>>

\* lines 177-181: nothing new, nothing is written
AggNoData ==
  /\ apc = "scan" /\ LoopDone(todo)
  /\ ~HasNewData(new_dataframes)
  /\ outcome' = IF ~csvExists THEN "warning" ELSE "noop"
  /\ apc' = "done"
  /\ UNCHANGED <<otherVars, runs, filterVars, diskVars, mainVars, histVars, caller, existing_df,
                 existing_dates, todo, new_dataframes, readFiles, frames, wrote, io,
                 cleanStart,
                 startTable>>

ResetAgg ==
  /\ apc' = "idle" /\ caller' = "" /\ existing_df' = <<>> /\ existing_dates' = {}
  /\ todo' = <<>> /\ new_dataframes' = <<>> /\ outcome' = "" /\ readFiles' = {}
  /\ frames' = <<>> /\ wrote' = FALSE /\ io' = <<>> /\ cleanStart' = FALSE
  /\ startTable' = NoTable

\* a direct call returns (or its exception ends the caller)
AggReturn ==
  /\ apc \in {"done", "crashed"} /\ caller = "direct"
  /\ ResetAgg
  /\ unchanged' = TRUE
  /\ prevTable' = Table
  /\ UNCHANGED <<otherVars, runs, filterVars, diskVars, mainVars>>

(* --------------------------- make_api_request -------------------------- *)

\* variant: off by one, the last failure is followed by a wait too
ShouldRetry_all(a) == a < MAX_RETRIES

\* attempt < MAX_RETRIES - 1 (line 42)
ShouldRetry(a) == a < MAX_RETRIES - 1

\* the next value of the loop variable is in range(MAX_RETRIES) (line 35)
InRange(a) == a < MAX_RETRIES

\* the loop ran out without a return: make_api_request returned None
ReturnedNone == fetches = attempt

Ended(step, ok) == [step |-> step, ok |-> ok]

\* the process is started; OUTPUT_FILENAME is fixed for its lifetime
StartMain ==
  /\ mpc = "idle" /\ apc = "idle"
  /\ \E d \in Days : today' = d
  /\ mpc' = "request"
  /\ UNCHANGED <<otherVars, runs, filterVars, diskVars, aggVars, histVars, attempt, fetches,
                 slept, gdf, exitStatus, artifactWritten, emptySelection,
                 abortedAt, steps>>

\* lines 37-39: the request succeeds, the payload is returned
RequestOk ==
  /\ mpc = "request"
  /\ fetches' = fetches + 1
  /\ mpc' = "fetched"
  /\ steps' = Append(steps, Ended("fetch", TRUE))
  /\ UNCHANGED <<otherVars, runs, filterVars, diskVars, aggVars, histVars, today, attempt,
                 slept, gdf, exitStatus, artifactWritten, emptySelection,
                 abortedAt>>

\* lines 40-44: the request fails and is retried after the delay
RequestRetry ==
  /\ mpc = "request"
  /\ ShouldRetry(attempt)
  /\ fetches' = fetches + 1
  /\ slept' = slept + RETRY_DELAY
  /\ attempt' = attempt + 1
  /\ mpc' = IF InRange(attempt + 1) THEN "request" ELSE "fetched"
  /\ UNCHANGED <<otherVars, runs, filterVars, diskVars, aggVars, histVars, today, gdf,
                 exitStatus, artifactWritten, emptySelection, abortedAt, steps>>

\* lines 45-47: the last attempt fails, sys.exit(1)
RequestGiveUp ==
  /\ mpc = "request"
  /\ ~ShouldRetry(attempt)
  /\ fetches' = fetches + 1
  /\ mpc' = "exited"
  /\ steps' = Append(steps, Ended("fetch", FALSE))
  /\ exitStatus' = 1
  /\ UNCHANGED <<otherVars, runs, filterVars, diskVars, aggVars, histVars, today, attempt,
                 slept, gdf, artifactWritten, emptySelection, abortedAt>>

(* --------------------------------- main -------------------------------- *)

\* lines 194-198: process_data and create_geodataframe on the payload the
\* request returned; an exception of either ends the process.  The frame of
\* make_api_request (its loop variable and what it counted) is gone.
Transform ==
  /\ mpc = "fetched"
  /\ \E data \in Payloads :
       /\ emptySelection' = (/\ ~ReturnedNone
                             /\ ~ProcessFails(data)
                             /\ filtered_gdf(process_data(data)) = <<>>)
       /\ IF ReturnedNone \/ ProcessFails(data)
          THEN /\ mpc' = "aborted"
               /\ abortedAt' = "process_data"
               /\ steps' = Append(steps, Ended("normalize", FALSE))
               /\ exitStatus' = 1
               /\ gdf' = gdf
          ELSE IF CreateFails(process_data(data))
          THEN /\ mpc' = "aborted"
               /\ abortedAt' = "create_geodataframe"
               /\ steps' = steps \o <<Ended("normalize", TRUE), Ended("filter", FALSE)>>
               /\ exitStatus' = 1
               /\ gdf' = gdf
          ELSE /\ mpc' = "built"
               /\ abortedAt' = abortedAt
               /\ steps' = steps \o <<Ended("normalize", TRUE), Ended("filter", TRUE)>>
               /\ exitStatus' = exitStatus
               /\ gdf' \in create_geodataframe(process_data(data))
  /\ attempt' = 0 /\ fetches' = 0 /\ slept' = 0
  /\ UNCHANGED <<otherVars, runs, filterVars, diskVars, aggVars, histVars, today, artifactWritten>>

\* line 203: the artifact of the day is written (created or overwritten)
ToFile ==
  /\ mpc = "built"
  /\ runs' = IF runs.failed THEN runs
             ELSE [runs EXCEPT !.written = @ \cup {OUTPUT_FILENAME(today)}]
  /\ dir' = [dir EXCEPT ![OUTPUT_FILENAME(today)] = WrittenArtifact(gdf)]
  /\ artifactWritten' = TRUE
  /\ unchanged' = FALSE
  /\ mpc' = "aggregate"
  /\ steps' = Append(steps, Ended("write", TRUE))
  /\ UNCHANGED <<otherVars, filterVars, csvExists, csvRows, batchDates, aggVars, prevTable,
                 today, attempt, fetches, slept, gdf, exitStatus,
                 emptySelection, abortedAt>>

\* line 203 raises (the file cannot be written)
ToFileFails ==
  /\ mpc = "built"
  /\ mpc' = "aborted"
  /\ abortedAt' = "to_file"
  /\ steps' = Append(steps, Ended("write", FALSE))
  /\ exitStatus' = 1
  /\ UNCHANGED <<otherVars, runs, filterVars, diskVars, aggVars, histVars, today, attempt,
                 fetches, slept, gdf, artifactWritten, emptySelection>>

\* lines 207-209: update_aggregated_csv returned, main logs and returns
MainDone ==
  /\ mpc = "aggregate" /\ apc = "done"
  /\ mpc' = "done"
  /\ steps' = Append(steps, Ended("aggregate", TRUE))
  /\ exitStatus' = 0
  /\ UNCHANGED <<otherVars, runs, filterVars, diskVars, aggVars, histVars, today, attempt,
                 fetches, slept, gdf, artifactWritten, emptySelection,
                 abortedAt>>

\* line 207 raises: the exception of update_aggregated_csv ends the process
MainAggCrash ==
  /\ mpc = "aggregate" /\ apc = "crashed"
  /\ mpc' = "aborted"
  /\ abortedAt' = "update_aggregated_csv"
  /\ steps' = Append(steps, Ended("aggregate", FALSE))
  /\ exitStatus' = 1
  /\ UNCHANGED <<otherVars, runs, filterVars, diskVars, aggVars, histVars, today, attempt,
                 fetches, slept, gdf, artifactWritten, emptySelection>>

\* the process is gone; the next one starts afresh
Exit ==
  /\ mpc \in {"done", "aborted", "exited"}
  /\ mpc' = "idle" /\ today' = "" /\ attempt' = 0 /\ fetches' = 0 /\ slept' = 0
  /\ gdf' = NoGeometry /\ exitStatus' = -1 /\ artifactWritten' = FALSE
  /\ emptySelection' = FALSE /\ abortedAt' = "" /\ steps' = <<>>
  /\ ResetAgg
  /\ unchanged' = (apc \in {"done", "crashed"})
  /\ prevTable' = IF apc \in {"done", "crashed"} THEN Table ELSE prevTable
  /\ runs' = IF runs.failed \/ exitStatus # 0
             THEN [NoRuns EXCEPT !.failed = TRUE]
             ELSE [runs EXCEPT !.days = @ \cup {today},
                               !.rerun = @ \/ today \in runs.days]
  /\ UNCHANGED <<otherVars, filterVars, diskVars>>

\* update_aggregated_csv, step by step
Aggregation ==
  \/ AggRead
  \/ VisitOther
  \/ VisitSkip
  \/ VisitProcess
  \/ VisitCrash
  \/ AggSave
  \/ AggNoData
  \/ AggReturn

\* The aggregation engine called on a directory that changes between calls.
Next ==
  \/ PutArtifact
  \/ RemoveArtifact
  \/ Aggregation

Spec == Init /\ [][Next]_vars

\* The whole script, run day after day on a directory nobody else touches.
MainInit ==
  /\ dir \in InitialDirs
  /\ csvExists = FALSE
  /\ csvRows = <<>>
  /\ batchDates = <<>>
  /\ MainIdle
  /\ AggIdle
  /\ unchanged = FALSE
  /\ prevTable = NoTable
  /\ FilterOff
  /\ OtherIdle
  /\ runs = NoRuns

MainNext ==
  \/ StartMain
  \/ RequestOk
  \/ RequestRetry
  \/ RequestGiveUp
  \/ Transform
  \/ ToFile
  \/ ToFileFails
  \/ Aggregation
  \/ MainDone
  \/ MainAggCrash
  \/ Exit

MainSpec == MainInit /\ [][MainNext]_vars

\* A step of a process that is running main: once started, the process keeps
\* taking steps (the request has a timeout, the waits and the files are
\* finite); when a process is started is up to its environment.
Run ==
  /\ mpc # "idle"
  /\ \/ RequestOk
     \/ RequestRetry
     \/ RequestGiveUp
     \/ Transform
     \/ ToFile
     \/ ToFileFails
     \/ Aggregation
     \/ MainDone
     \/ MainAggCrash

MainLiveSpec == MainInit /\ [][MainNext]_vars /\ WF_vars(Run)

(* ------------- process_data and create_geodataframe alone -------------- *)

FilterInit ==
  /\ dir = [n \in FileNames |-> Absent]
  /\ csvExists = FALSE
  /\ csvRows = <<>>
  /\ batchDates = <<>>
  /\ MainIdle
  /\ AggIdle
  /\ unchanged = FALSE
  /\ prevTable = NoTable
  /\ fpc = "payload"
  /\ raw_data \in Payloads
  /\ geo_list = <<>>
  /\ unionInput = <<>>
  /\ OtherIdle
  /\ runs = NoRuns

\* lines 50-70 return the feature list
Normalize ==
  /\ fpc = "payload"
  /\ ~ProcessFails(raw_data)
  /\ geo_list' = process_data(raw_data)
  /\ fpc' = "normalized"
  /\ UNCHANGED <<otherVars, runs, diskVars, mainVars, aggVars, histVars, raw_data, unionInput>>

\* lines 53-68 raise
NormalizeRaises ==
  /\ fpc = "payload"
  /\ ProcessFails(raw_data)
  /\ fpc' = "raised in process_data"
  /\ UNCHANGED <<otherVars, runs, diskVars, mainVars, aggVars, histVars, raw_data, geo_list,
                 unionInput>>

\* lines 75-93 return the merged, de-artifacted geometry
Build ==
  /\ fpc = "normalized"
  /\ ~CreateFails(geo_list)
  /\ unionInput' = filtered_gdf(geo_list)
  /\ gdf' \in create_geodataframe(geo_list)
  /\ fpc' = "built"
  /\ UNCHANGED <<otherVars, runs, diskVars, aggVars, histVars, mpc, today, attempt, fetches,
                 slept, exitStatus, artifactWritten, emptySelection, abortedAt, steps,
                 raw_data, geo_list>>

\* lines 75-80 raise
BuildRaises ==
  /\ fpc = "normalized"
  /\ CreateFails(geo_list)
  /\ fpc' = "raised in create_geodataframe"
  /\ UNCHANGED <<otherVars, runs, diskVars, mainVars, aggVars, histVars, raw_data, geo_list,
                 unionInput>>

FilterNext ==
  \/ Normalize
  \/ NormalizeRaises
  \/ Build
  \/ BuildRaises

FilterSpec == FilterInit /\ [][FilterNext]_vars

\* The aggregation engine called again and again on a directory and a table
\* that are both edited from outside between the calls.
EditNext ==
  \/ PutArtifact
  \/ RemoveRows
  \/ AddRows
  \/ Aggregation

EditSpec == Init /\ [][EditNext]_vars

(* --------------- two update_aggregated_csv processes at once ----------- *)

RECURSIVE loop(_, _)
\* lines 154-166 run over the listing files with the covered dates covered:
\* the frames left in new_dataframes
loop(files, covered) ==
  IF files = <<>> THEN <<>>
  ELSE LET file == Head(files)
       IN IF ~endswith(file, EXT)
             \/ AlreadyProcessed(extract_date_from_filename(file), covered)
          THEN loop(Tail(files), covered)
          ELSE LET df == process_geojson(file, dir[file])
               IN (IF df # <<>> THEN <<df>> ELSE <<>>) \o loop(Tail(files), covered)

\* some file of the loop makes gpd.read_file raise
LoopRaises(files, covered) ==
  \E i \in DOMAIN files :
    /\ endswith(files[i], EXT)
    /\ ~AlreadyProcessed(extract_date_from_filename(files[i]), covered)
    /\ ReadFails(files[i], dir[files[i]])

\* lines 145-150 in the second process
OtherRead ==
  /\ other_pc = "idle"
  /\ other_existing_df' = read_existing(csvExists, csvRows)
  /\ other_existing_dates' = dates(read_existing(csvExists, csvRows))
  /\ race' = [race EXCEPT !.readFirst = ~wrote]
  /\ other_pc' = "read"
  /\ UNCHANGED <<runs, filterVars, diskVars, mainVars, aggVars, histVars,
                 other_new_dataframes>>

\* lines 152-166 in the second process: the loop runs to its end
OtherLoop ==
  /\ other_pc = "read"
  /\ ~LoopRaises(sorted(listdir), other_existing_dates)
  /\ other_new_dataframes' = loop(sorted(listdir), other_existing_dates)
  /\ other_pc' = "scanned"
  /\ UNCHANGED <<runs, filterVars, diskVars, mainVars, aggVars, histVars,
                 other_existing_df, other_existing_dates, race>>

\* line 164 raises in the second process
OtherLoopRaises ==
  /\ other_pc = "read"
  /\ LoopRaises(sorted(listdir), other_existing_dates)
  /\ other_pc' = "crashed"
  /\ UNCHANGED <<runs, filterVars, diskVars, mainVars, aggVars, histVars,
                 other_existing_df, other_existing_dates,
                 other_new_dataframes, race>>

\* lines 168-176 in the second process
OtherSave ==
  /\ other_pc = "scanned"
  /\ HasNewData(other_new_dataframes)
  /\ csvRows' = to_csv(csvRows, combined_df(other_existing_df,
                                            concat(other_new_dataframes)))
  /\ csvExists' = TRUE
  /\ batchDates' = batchDates \o
       [i \in 1..Len(other_new_dataframes) |-> other_new_dataframes[i][1].date]
  /\ race' = [race EXCEPT !.sawRead = (apc # "idle"), !.last = wrote]
  /\ other_pc' = "saved"
  /\ UNCHANGED <<runs, filterVars, dir, mainVars, aggVars, histVars,
                 other_existing_df, other_existing_dates, other_new_dataframes>>

\* lines 177-181 in the second process
OtherNoData ==
  /\ other_pc = "scanned"
  /\ ~HasNewData(other_new_dataframes)
  /\ other_pc' = "nothing new"
  /\ UNCHANGED <<runs, filterVars, diskVars, mainVars, aggVars, histVars,
                 other_existing_df, other_existing_dates,
                 other_new_dataframes, race>>

\* One call of update_aggregated_csv in each of two processes, on a directory
\* that artifacts are put into until the first process starts.  (batchDates
\* lists the batches in the order they were written, whoever wrote them.)
RaceNext ==
  \/ PutArtifact
  \/ AggRead
  \/ VisitOther
  \/ VisitSkip
  \/ VisitProcess
  \/ VisitCrash
  \/ AggSave
  \/ AggNoData
  \/ OtherRead
  \/ OtherLoop
  \/ OtherLoopRaises
  \/ OtherSave
  \/ OtherNoData

RaceSpec == Init /\ [][RaceNext]_vars

(* ------------------------------ properties ----------------------------- *)

TableDates(rows) == { rows[i].date : i \in DOMAIN rows }
RowsOf(rows, d) == SelectSeq(rows, LAMBDA r : r.date = d)
IsPrefix(a, b) == Len(a) <= Len(b) /\ SubSeq(b, 1, Len(a)) = a
Produced == \E i \in DOMAIN frames : frames[i].df # <<>>

\* C1: when update_aggregated_csv runs again with no artifact added, changed
\* or removed since the previous run ended, the table after this run is the
\* table the previous run left, and this run does not write the table.
C1_SecondRunIsNoOp ==
  (apc \in {"done", "crashed"} /\ cleanStart) => (Table = prevTable /\ ~wrote)

\* a second run has finished on a directory holding an artifact whose rows the
\* first run put into the table
C1_Witness ==
  /\ apc = "done" /\ cleanStart /\ ~wrote
  /\ prevTable.rows # <<>>
  /\ \E n \in FileNames :
       /\ dir[n].present /\ dir[n].readable
       /\ process_geojson(n, dir[n]) # <<>>
       /\ extract_date_from_filename(n) \in TableDates(csvRows)

\* C2: the table holds at most one batch of rows per date: no two batches
\* appended to it carry the same date.
C2_OneBatchPerDate ==
  \A i, j \in DOMAIN batchDates : i # j => batchDates[i] # batchDates[j]

\* C3: when the table holds rows for a date at the start of a run, no artifact
\* whose name parses to that date has its content read by the run, and the
\* rows of that date are the same rows, in the same order, throughout the run.
C3_CoveredDateSkipped ==
  apc \in {"scan", "done", "crashed"} =>
    /\ \A n \in readFiles :
         extract_date_from_filename(n) \notin TableDates(startTable.rows)
    /\ \A d \in TableDates(startTable.rows) :
         RowsOf(csvRows, d) = RowsOf(startTable.rows, d)

\* a run that saved rows of another date has skipped an artifact of a covered
\* date whose content is no longer what its rows in the table came from
C3_Witness ==
  /\ apc = "done" /\ wrote
  /\ \E n \in FileNames :
       /\ dir[n].present /\ dir[n].readable
       /\ extract_date_from_filename(n) \in TableDates(startTable.rows)
       /\ n \notin readFiles
       /\ process_geojson(n, dir[n]) #
            RowsOf(startTable.rows, extract_date_from_filename(n))

\* C4: the table only grows at its end: in every step the rows on disk before
\* the step are a prefix of the rows after it, and the table is never deleted.
C4_AppendOnly ==
  [][IsPrefix(csvRows, csvRows') /\ (csvExists => csvExists')]_vars

\* a run has saved new rows behind the rows it found
C4_Witness ==
  /\ apc = "done" /\ wrote
  /\ startTable.rows # <<>>
  /\ Len(csvRows) > Len(startTable.rows)

\* C5: make_api_request makes at most MAX_RETRIES requests; it returns at the
\* first request that succeeds, having waited RETRY_DELAY after each failure
\* before it; after MAX_RETRIES failures the process exits with status 1,
\* with no wait after the last failure and nothing returned.
C5_BoundedRetry ==
  /\ fetches <= MAX_RETRIES
  /\ mpc = "request" =>
       attempt < MAX_RETRIES /\ fetches = attempt /\ slept = RETRY_DELAY * attempt
  /\ mpc = "fetched" =>
       fetches = attempt + 1 /\ slept = RETRY_DELAY * attempt /\ exitStatus = -1
  /\ mpc = "exited" =>
       /\ exitStatus = 1
       /\ fetches = MAX_RETRIES
       /\ slept = RETRY_DELAY * (MAX_RETRIES - 1)

\* the third request in a row has failed and the process has exited
C5_Witness ==
  /\ mpc = "exited" /\ exitStatus = 1
  /\ fetches = MAX_RETRIES /\ slept = RETRY_DELAY * (MAX_RETRIES - 1)

\* C6: a run of main that ends on a fatal condition has written neither its
\* artifact nor the table.
C6_AbortWritesNothing ==
  mpc \in {"aborted", "exited"} => (~artifactWritten /\ ~wrote)

\* C7: a run writes the table exactly when it produced new rows; a run that
\* produced none leaves the table as it found it and reports "noop" when the
\* table existed and "warning" when it did not.
C7_WriteIffNewRows ==
  apc = "done" =>
    /\ wrote <=> Produced
    /\ Produced => (outcome = "saved" /\ csvExists)
    /\ ~Produced =>
         /\ Table = startTable
         /\ outcome = IF startTable.exists THEN "noop" ELSE "warning"

\* a run has read an artifact, got no rows from it, and left an existing table
\* alone
C7_Witness ==
  /\ apc = "done" /\ ~wrote /\ outcome = "noop"
  /\ frames # <<>>
  /\ startTable.exists /\ csvRows # <<>>

PartCount(geom) ==
  CASE geom.kind = "Polygon" -> 1
    [] geom.kind = "MultiPolygon" -> Len(geom.parts)
    [] OTHER -> 0

RECURSIVE SumParts(_)
SumParts(rws) ==
  IF rws = <<>> THEN 0 ELSE PartCount(rws[1].geometry) + SumParts(Tail(rws))

\* the day written in a file name of FileNames
NameDay(name) ==
  IF \E i \in DOMAIN name : name[i] = "20240101" THEN "2024-01-01"
  ELSE IF \E i \in DOMAIN name : name[i] = "20240102" THEN "2024-01-02"
  ELSE NoDate

\* C8: for an artifact whose name has a date, process_geojson returns one row
\* per polygon (1 for a Polygon, k for a MultiPolygon of k parts, 0 for any
\* other geometry), every row carrying the date of the file name.
C8_OneRowPerPolygon ==
  \A i \in DOMAIN frames :
    NameDay(frames[i].name) # NoDate =>
      /\ Len(frames[i].df) = SumParts(frames[i].file.rows)
      /\ \A k \in DOMAIN frames[i].df : frames[i].df[k].date = NameDay(frames[i].name)

\* the artifact holding a point, a multipolygon of MaxParts parts and a
\* polygon has been processed into MaxParts + 1 rows
C8_Witness ==
  \E i \in DOMAIN frames :
    /\ frames[i].file = ArtMixed
    /\ Len(frames[i].df) = MaxParts + 1
    /\ NameDay(frames[i].name) = "2024-01-01"

\* the features of the payload that are single polygons labelled with one of
\* the three categories
Eligible ==
  { i \in DOMAIN raw_data.features :
      /\ raw_data.features[i].geometry.kind = "Polygon"
      /\ strip(raw_data.features[i].label[2]) \in
           { <<"CADR and CALR">>, <<"Occupied">>, <<"Occupied Crimea">> } }

\* C9: for every list of normalized features create_geodataframe raises no
\* error and unions exactly the single polygons whose name is one of the
\* three categories.
C9_FilterExact ==
  fpc \in {"built", "raised in create_geodataframe"} =>
    /\ fpc = "built"
    /\ Len(unionInput) = Cardinality(Eligible)
    /\ { unionInput[i].geometry.parts : i \in DOMAIN unionInput } =
         { raw_data.features[i].geometry.parts : i \in Eligible }

\* C10: a run whose payload is well formed and in which no feature passes the
\* filter is not ended by process_data or create_geodataframe; when it
\* completes it exits with status 0, its artifact holds the empty geometry, it
\* adds no rows for its day, and the rows of the other artifacts it processed
\* are saved.
C10_EmptySelectionSafe ==
  emptySelection =>
    /\ abortedAt \notin {"process_data", "create_geodataframe"}
    /\ mpc = "done" =>
         /\ exitStatus = 0
         /\ dir[OUTPUT_FILENAME(today)] = ArtEmpty
         /\ \A i \in DOMAIN frames :
              frames[i].name = OUTPUT_FILENAME(today) => frames[i].df = <<>>
         /\ Produced => (wrote /\ IsPrefix(startTable.rows, csvRows))

RECURSIVE FramesOf(_, _)
\* the non-empty frames of the artifacts named in names, in that order, that
\* are not dated in covered
FramesOf(names, covered) ==
  IF names = <<>> THEN <<>>
  ELSE LET n == Head(names)
           df == IF dir[n].readable THEN process_geojson(n, dir[n]) ELSE <<>>
       IN IF NameDay(n) \in covered \/ df = <<>>
          THEN FramesOf(Tail(names), covered)
          ELSE <<df>> \o FramesOf(Tail(names), covered)

\* C11: an artifact whose name has no parseable date is not read, gives no
\* rows and does not end the run; the frames a completed run collected are
\* those of a run over the directory without the artifacts of such names.
C11_UnparseableSkipped ==
  /\ \A n \in readFiles : NameDay(n) # NoDate
  /\ \A i \in DOMAIN frames :
       NameDay(frames[i].name) = NoDate => frames[i].df = <<>>
  /\ apc = "crashed" => NameDay(Head(todo)) # NoDate
  /\ apc = "done" =>
       new_dataframes =
         FramesOf(sorted({ n \in FileNames : dir[n].present /\ NameDay(n) # NoDate }),
                  TableDates(startTable.rows))

\* a completed run has passed an undated name holding a polygon and an undated
\* name that cannot be read, between two artifacts whose rows it saved
C11_Witness ==
  /\ apc = "done" /\ wrote
  /\ dir[<<PREFIX, "latest", EXT>>] = Unreadable
  /\ \E i, j, k \in DOMAIN frames :
       /\ i < j /\ j < k
       /\ frames[i].df # <<>> /\ frames[k].df # <<>>
       /\ frames[j].name = <<PREFIX, "2024-01-01", EXT>>
       /\ frames[j].file = ArtPolygon
       /\ frames[j].df = <<>>

Count(seq, e) == Cardinality({ i \in DOMAIN seq : seq[i] = e })

\* C12: a run reads the table at most once, before it lists the directory
\* and before every visit; it writes the table at most once, after the last
\* file of the listing has been visited, and does nothing after the write;
\* the covered dates stay those of the table as read.
C12_ReadOnceWriteOnce ==
  /\ Count(io, "read_csv") <= 1
  /\ Count(io, "to_csv") <= 1
  /\ Count(io, "read_csv") = 1 <=> (apc # "idle" /\ startTable.exists)
  /\ \A i, j \in DOMAIN io :
       (io[i] = "read_csv" /\ io[j] # "read_csv") => i < j
  /\ \A i, j \in DOMAIN io : (io[i] = "to_csv" /\ j # i) => j < i
  /\ wrote <=> Count(io, "to_csv") = 1
  /\ wrote =>
       /\ todo = <<>>
       /\ Count(io, "visit") =
            Cardinality({ n \in FileNames : dir[n].present })
              + (IF startTable.exists THEN 1 ELSE 0)
  /\ apc = "done" => todo = <<>>
  /\ apc \in {"scan", "done", "crashed"} =>
       existing_dates = TableDates(startTable.rows)

\* a run has read a table with rows, visited three files and written once
C12_Witness ==
  /\ apc = "done"
  /\ startTable.rows # <<>>
  /\ Count(io, "visit") >= 3
  /\ io[1] = "read_csv" /\ io[2] = "listdir" /\ io[Len(io)] = "to_csv"

\* both processes have read the table before either wrote it, and both
\* have written it
BothReadThenBothWrote ==
  /\ apc = "done" /\ wrote
  /\ other_pc = "saved"
  /\ race.readFirst /\ race.sawRead

\* C13: when both processes read the table before either writes it, the
\* table left after both have written is the rows the last writer read
\* followed by the rows the last writer collected, and nothing else.
C13_LastWriterWins ==
  BothReadThenBothWrote =>
    /\ existing_df = other_existing_df
    /\ csvRows = IF race.last
                 THEN other_existing_df \o concat(other_new_dataframes)
                 ELSE existing_df \o concat(new_dataframes)

\* the first process saved rows of a date, the second process wrote after it
\* from an older listing, and the table holds no row of that date
C13_Witness ==
  /\ BothReadThenBothWrote
  /\ race.last
  /\ \E d \in TableDates(concat(new_dataframes)) : d \notin TableDates(csvRows)

\* the artifacts present, readable and dated d that hold a polygon
ArtifactsWithRows(d) ==
  { n \in FileNames :
      /\ dir[n].present /\ dir[n].readable
      /\ NameDay(n) = d
      /\ SumParts(dir[n].rows) > 0 }

\* C14: the covered dates of a run are those of the table as the run found
\* it, whatever the previous run left.  A date the previous run left covered
\* and the table no longer holds gets rows again from each artifact dated so
\* that holds a polygon; for a date the previous run left uncovered and the
\* table now holds, no artifact is read and the rows of the date stay.
C14_CoveredDatesRecomputed ==
  /\ apc \in {"scan", "done", "crashed"} =>
       existing_dates = TableDates(startTable.rows)
  /\ apc = "done" =>
       \A d \in TableDays :
         /\ (d \in TableDates(prevTable.rows) /\ d \notin TableDates(startTable.rows)) =>
              \A n \in ArtifactsWithRows(d) :
                /\ n \in readFiles
                /\ d \in TableDates(csvRows)
                /\ \E i \in DOMAIN new_dataframes :
                     new_dataframes[i] = process_geojson(n, dir[n])
         /\ (d \notin TableDates(prevTable.rows) /\ d \in TableDates(startTable.rows)) =>
              /\ \A n \in FileNames : NameDay(n) = d => n \notin readFiles
              /\ RowsOf(csvRows, d) = RowsOf(startTable.rows, d)

\* between two runs the rows of one date were deleted from the table and a
\* row of the other date was added to it; the second run has put back the
\* rows of the first date and has not read the artifact of the other date
C14_Witness ==
  /\ apc = "done" /\ wrote
  /\ \E d, e \in TableDays :
       /\ d \in TableDates(prevTable.rows)
       /\ d \notin TableDates(startTable.rows)
       /\ ArtifactsWithRows(d) # {}
       /\ d \in TableDates(csvRows)
       /\ e \notin TableDates(prevTable.rows)
       /\ e \in TableDates(startTable.rows)
       /\ ArtifactsWithRows(e) # {}
       /\ ArtifactsWithRows(e) \cap readFiles = {}

\* the names of this model in ascending order of their text
NameOrder ==
  << <<"20240101", EXT>>,
     CSV_NAME,
     <<PREFIX, "2024-01-01", EXT>>,
     <<PREFIX, "20240101", EXT>>,
     <<PREFIX, "20240102", EXT>>,
     <<PREFIX, "latest", EXT>> >>

Pos(n) == CHOOSE i \in DOMAIN NameOrder : NameOrder[i] = n

\* C15: the files are visited in ascending order of their names, and the
\* rows a run appends are, artifact after artifact in that order, the rows
\* process_geojson returned for the artifact, in the order it returned them.
C15_RowsInFilenameOrder ==
  /\ \A i, j \in DOMAIN frames :
       i < j => Pos(frames[i].name) < Pos(frames[j].name)
  /\ \A i \in DOMAIN frames, k \in DOMAIN todo :
       Pos(frames[i].name) < Pos(todo[k])
  /\ \A k, l \in DOMAIN todo : k < l => Pos(todo[k]) < Pos(todo[l])
  /\ \A i \in DOMAIN frames :
       frames[i].df = process_geojson(frames[i].name, frames[i].file)
  /\ (apc = "done" /\ wrote) =>
       csvRows = startTable.rows \o concat([i \in DOMAIN frames |-> frames[i].df])

\* a run has appended, behind the rows it found, the rows of two artifacts,
\* the first of them with more than one row
C15_Witness ==
  /\ apc = "done" /\ wrote
  /\ startTable.rows # <<>>
  /\ \E i, j \in DOMAIN frames :
       /\ i < j
       /\ Len(frames[i].df) > 1 /\ frames[j].df # <<>>
       /\ csvRows = startTable.rows \o frames[i].df \o frames[j].df

\* C16: as long as every run of main has ended with status 0, the files
\* main has written are one per day it has run on, named by
\* "deepstatemap_data_", the day and ".geojson", and all are in OUTPUT_DIR;
\* so a further run on a day already run on adds no file.
C16_OneArtifactPerDay ==
  (mpc = "idle" /\ ~runs.failed) =>
    /\ runs.written = { <<"deepstatemap_data_", d, ".geojson">> : d \in runs.days }
    /\ Cardinality(runs.written) = Cardinality(runs.days)
    /\ \A n \in runs.written : dir[n].present /\ dir[n].readable

\* runs on two days, all with status 0 and one of them on a day already run
\* on, have left two artifacts
C16_Witness ==
  /\ mpc = "idle" /\ ~runs.failed
  /\ runs.rerun
  /\ runs.days = Days
  /\ Cardinality(runs.written) = 2

StepOrder == <<"fetch", "normalize", "filter", "write", "aggregate">>

\* the day of the running process, as a date of the table
RunDate ==
  CASE today = "20240101" -> "2024-01-01"
    [] today = "20240102" -> "2024-01-02"
    [] OTHER -> NoDate

\* C17: the steps of a run of main end in the order fetch, normalize,
\* filter/merge, write, aggregate, each after the success of the one before;
\* the aggregation runs on a directory that holds the artifact of this run;
\* a run that ends with status 0 on a day the table did not cover, with a
\* merged region of at least one polygon, leaves one row per polygon of that
\* region for that day in the table.
C17_StepsInOrder ==
  /\ Len(steps) <= Len(StepOrder)
  /\ \A i \in DOMAIN steps : steps[i].step = StepOrder[i]
  /\ \A i \in DOMAIN steps : i < Len(steps) => steps[i].ok
  /\ mpc = "fetched" => (Len(steps) = 1 /\ steps[1].ok)
  /\ mpc = "built" => (Len(steps) = 3 /\ steps[3].ok /\ ~artifactWritten)
  /\ artifactWritten <=> (Len(steps) >= 4 /\ steps[4].ok)
  /\ (mpc # "idle" /\ apc # "idle") =>
       /\ Len(steps) >= 4 /\ steps[4].ok
       /\ dir[<<"deepstatemap_data_", today, ".geojson">>].present
  /\ mpc = "done" <=> (Len(steps) = 5 /\ steps[5].ok)
  /\ (mpc = "done" /\ RunDate \notin TableDates(startTable.rows) /\ gdf.parts # <<>>) =>
       /\ wrote
       /\ Len(RowsOf(csvRows, RunDate)) >= Len(gdf.parts)
       /\ \A k \in DOMAIN gdf.parts :
            \E i \in DOMAIN csvRows :
              csvRows[i].date = RunDate /\ csvRows[i].polygon = gdf.parts[k]

\* a run on a day the table did not cover has ended with status 0 and left
\* the rows of its two-part region behind rows of another day
C17_Witness ==
  /\ mpc = "done" /\ exitStatus = 0
  /\ startTable.rows # <<>>
  /\ RunDate \notin TableDates(startTable.rows)
  /\ Len(gdf.parts) = 2
  /\ RunDate \in TableDates(csvRows)

NoRevisit ==
  /\ \A i, j \in DOMAIN frames : i # j => frames[i].name # frames[j].name
  /\ \A k, l \in DOMAIN todo : k # l => todo[k] # todo[l]
  /\ \A i \in DOMAIN frames, k \in DOMAIN todo : frames[i].name # todo[k]
  /\ Count(io, "visit") + (IF apc = "crashed" THEN Len(todo) - 1 ELSE Len(todo))
       <= Cardinality(FileNames) + 1

\* C18: a started run of main ends, with status 0 or with status 1, whatever
\* the requests return and whatever OUTPUT_DIR holds; it makes at most
\* MAX_RETRIES requests and visits no file of the listing twice.
C18_Terminates ==
  /\ (mpc = "request") ~> (exitStatus \in {0, 1})
  /\ [](fetches <= MAX_RETRIES)
  /\ []NoRevisit

\* a run has ended with status 0 after visiting the table and three artifacts
C18_Witness ==
  /\ mpc = "done" /\ exitStatus = 0
  /\ Count(io, "visit") >= 4
  /\ todo = <<>>

\* the artifacts present, readable and dated that hold no polygon
ZeroRowArtifacts ==
  { n \in FileNames :
      /\ dir[n].present /\ dir[n].readable
      /\ NameDay(n) # NoDate
      /\ SumParts(dir[n].rows) = 0 }

\* after a completed run every date of an artifact holding a polygon is in
\* the table
AllCovered ==
  \A d \in TableDays : ArtifactsWithRows(d) # {} => d \in TableDates(csvRows)

\* no two artifacts present have names of the same date
OneArtifactPerDate ==
  \A n, m \in FileNames :
    (dir[n].present /\ dir[m].present /\ NameDay(n) # NoDate /\ NameDay(n) = NameDay(m))
      => n = m

\* C19 as stated: after a completed run the date of every artifact holding a
\* polygon is in the table, and an artifact that gives no rows is read again
\* by every later run, which leaves the table as it was.  (Stated for a run
\* on a directory that is as the previous run left it and holds at most one
\* artifact per date.)
C19_ZeroRowAlwaysReread ==
  apc = "done" =>
    /\ AllCovered
    /\ (cleanStart /\ OneArtifactPerDate) =>
         /\ \A n \in ZeroRowArtifacts : n \in readFiles
         /\ Table = startTable

\* C19 as amended: after a completed run the date of every artifact holding a
\* polygon is in the table; an artifact that gives no rows adds none and does
\* not make its date covered: the rows of its date are those the run found
\* and those of the other artifacts of that date read by the run; a completed
\* run reads it again exactly when it starts with that date uncovered.
C19_Coverage ==
  apc = "done" =>
    /\ AllCovered
    /\ \A n \in ZeroRowArtifacts :
         /\ n \in readFiles <=> NameDay(n) \notin TableDates(startTable.rows)
         /\ \A i \in DOMAIN frames : frames[i].name = n => frames[i].df = <<>>
         /\ NameDay(n) \in TableDates(csvRows) =>
              \/ NameDay(n) \in TableDates(startTable.rows)
              \/ \E m \in ArtifactsWithRows(NameDay(n)) : m \in readFiles
    /\ csvRows = startTable.rows \o
         concat(SelectSeq([i \in DOMAIN frames |-> frames[i].df],
                          LAMBDA df : df # <<>>))

\* a run on the directory as the previous run left it has read again an
\* artifact without polygons, beside a covered artifact with polygons, and
\* has left the table alone
C19_Witness ==
  /\ apc = "done" /\ cleanStart /\ ~wrote
  /\ csvRows # <<>>
  /\ ZeroRowArtifacts \cap readFiles # {}
  /\ \E d \in TableDays : ArtifactsWithRows(d) # {}

====
